---- MODULE Spec2Model ----
(***************************************************************************)
(* sidetone (src/main.rs): main() negotiates the input and output stream   *)
(* configurations, creates a bounded channel of samples, pre-fills it with *)
(* silence, and hands its two halves to the capture callback               *)
(* (input_data_fn) and the render callback (output_data_fn), which run on  *)
(* the audio backend's threads while main waits in serve() for ctrl-c.     *)
(*                                                                         *)
(* Samples are f32 in the source; here they are small naturals, 0 being    *)
(* 0.0 (silence).  Sample rates are scaled down to 1..MaxRate and          *)
(* BUFFER_SIZE (550 in the source) to 3 slots, so that latency_samples     *)
(* falls both below and above BUFFER_SIZE.                                 *)
(***************************************************************************)
EXTENDS Naturals, Sequences, FiniteSets

\* ------------------------------------------------------------------ bounds
MaxRate     == 2   \* sample rates are 1..MaxRate
MaxChannels == 2   \* channel counts are 1..MaxChannels
MaxSample   == 1   \* sample values are 0..MaxSample
MaxFrames   == 1   \* frames handed to one callback invocation: 0..MaxFrames
MaxCaptured == 2   \* samples captured over a whole run
MaxRendered == 2   \* frames rendered over a whole run

\* ------------------------------------------------------- program constants
INITIAL_LATENCY == 1000   \* milliseconds (Duration::from_millis(1000))
BUFFER_SIZE     == 3      \* 550 in the source, scaled

Rates    == 1..MaxRate
Channels == 1..MaxChannels
Samples  == 0..MaxSample
Silence  == 0

VARIABLES
    pc,                 \* main's position
    result,             \* what main returned: "none", "Ok", "ErrRate", "ErrOther"
    input_config,       \* [sample_rate, channels] of the input device
    output_config,      \* [sample_rate, channels] of the output device
    chan,               \* the sync_channel's queue; <<>> before it exists
    capacity,           \* the bound the channel was created with; 0 before it exists
    created,            \* the channel exists
    latency_samples,    \* line 85
    prefill_i,          \* iterations of the prefill loop done so far
    input_stream,       \* "none", "built", "playing", "dropped"
    output_stream,      \* "none", "built", "playing", "dropped"
    shutdown,           \* ctrl-c has been sent on serve()'s channel
    cap,                \* capture callback (input_data_fn) frame
    ren,                \* render callback (output_data_fn) frame
    hist                \* observation record, read by the properties only

vars == << pc, result, input_config, output_config, chan, capacity, created,
           latency_samples, prefill_i, input_stream, output_stream, shutdown,
           cap, ren, hist >>

mainVars   == << pc, result, latency_samples, prefill_i, shutdown >>
configVars == << input_config, output_config >>
streamVars == << input_stream, output_stream >>

\* ----------------------------------------------------------------- helpers
\* Duration::as_secs: whole seconds of a duration given in milliseconds.
as_secs(ms) == ms \div 1000

\* Line 84.  Both factors are whole numbers far below 2^24, so the f32
\* product is exact and the later `as usize` leaves it as it is.
latency_frames(cfg) == as_secs(INITIAL_LATENCY) * cfg.sample_rate

\* (mutant) the channel count is left out of the product.
LatencySamplesOneChannel(cfg) == latency_frames(cfg)

\* Line 85.
LatencySamples(cfg) == latency_frames(cfg) * cfg.channels

\* (mutant) the comparison of the sample rates is left out.
ConfigsNotCompared(ic, oc) == TRUE

\* Line 81: the only comparison main makes between the two configurations.
ConfigsCompatible(ic, oc) == ic.sample_rate = oc.sample_rate

\* (mutant) the bound is the number of prefill samples for the output device.
ChannelBoundFromLatency == LatencySamples(output_config)

\* Line 86: the bound handed to sync_channel.
ChannelBound == BUFFER_SIZE

\* (mutant) off by one: a full channel still takes a sample.
TrySendOkOffByOne(q, c) == Len(q) <= c

\* SyncSender::try_send on a channel of bound c holding q: Ok iff a slot is free.
TrySendOk(q, c) == Len(q) < c

\* (mutant) a stack: the sample is queued in front of the others.
TrySendFront(q, c, s) == IF TrySendOk(q, c) THEN << s >> \o q ELSE q

\* (mutant) an unbounded channel: the sample is queued whatever the fill level.
TrySendUnbounded(q, c, s) == Append(q, s)

\* The queue after try_send(s): the sample is appended or the queue is untouched.
TrySend(q, c, s) == IF TrySendOk(q, c) THEN Append(q, s) ELSE q

\* (mutant) the flag follows the last sample instead of accumulating.
FlagAfterLastOnly(flag, ok) == ~ok

\* Lines 95-97: output_fell_behind after one try_send; it is only ever set.
FlagAfter(flag, ok) == flag \/ ~ok

\* (mutant) off by one: the last queued sample is never handed out.
TryRecvOkKeepsLast(q) == Len(q) > 1

\* Receiver::try_recv: Ok iff a sample is queued.
TryRecvOk(q) == Len(q) > 0

\* (mutant) the sample goes to one slot only; the next slot takes the next one.
FillFrameOneSlot(s, ch) == << s >>

\* Lines 108-110: every slot of the frame receives the one received sample.
FillFrame(s, ch) == [k \in 1..ch |-> s]

\* (mutant) the callbacks run whatever main has done so far.
RunningAlways(stream) == TRUE

\* A stream invokes its callback from the moment it is built on backends that
\* start streams on creation, and from play() on the others.
Running(stream) == stream \in {"built", "playing"}

Configs == [sample_rate : Rates, channels : Channels]

\* A callback's frame.  fill0, concurrent and oks are observations read by
\* the properties only: the channel's fill level when the call began, whether
\* the other callback changed the channel while the call was running, and
\* the outcome of each try_send of the call.
IdleCap == [pc |-> "idle", data |-> << >>, oks |-> << >>, n |-> 0,
            output_fell_behind |-> FALSE, fill0 |-> 0, concurrent |-> FALSE]
IdleRen == [pc |-> "idle", data |-> << >>, n |-> 0, written |-> {},
            input_fell_behind |-> FALSE, fill0 |-> 0, concurrent |-> FALSE]

\* ----------------------------------------------------------------- initial
\* hist: pushed and popped are the samples the channel accepted and gave
\* out, delivered the samples the render callback wrote to output buffers,
\* captured and rendered the samples and frames the callbacks went through.
Init ==
    /\ pc = "check_rates"
    /\ result = "none"
    /\ input_config \in Configs
    /\ output_config \in Configs
    /\ chan = << >>
    /\ capacity = 0
    /\ created = FALSE
    /\ latency_samples = 0
    /\ prefill_i = 0
    /\ input_stream = "none"
    /\ output_stream = "none"
    /\ shutdown = FALSE
    /\ cap = IdleCap
    /\ ren = IdleRen
    /\ hist = [pushed |-> << >>, popped |-> << >>, delivered |-> << >>,
               rejected |-> FALSE, underran |-> FALSE, captured |-> 0,
               rendered |-> 0, diverged |-> FALSE]

\* -------------------------------------------------------------------- main
\* Lines 81-83.
CheckRates ==
    /\ pc = "check_rates"
    /\ IF ConfigsCompatible(input_config, output_config)
         THEN /\ pc' = "latency"
              /\ result' = result
         ELSE /\ pc' = "returned"
              /\ result' = "ErrRate"
    /\ UNCHANGED << configVars, chan, capacity, created, latency_samples,
                    prefill_i, streamVars, shutdown, cap, ren, hist >>

\* Lines 84-85.
ComputeLatency ==
    /\ pc = "latency"
    /\ latency_samples' = LatencySamples(output_config)
    /\ pc' = "channel"
    /\ UNCHANGED << result, configVars, chan, capacity, created, prefill_i,
                    streamVars, shutdown, cap, ren, hist >>

\* Line 86.
CreateChannel ==
    /\ pc = "channel"
    /\ created' = TRUE
    /\ capacity' = ChannelBound
    /\ chan' = << >>
    /\ pc' = "prefill"
    /\ UNCHANGED << result, configVars, latency_samples, prefill_i, streamVars,
                    shutdown, cap, ren, hist >>

\* (mutant) send instead of try_send: the loop waits for a free slot.
PrefillStepBlocking ==
    /\ pc = "prefill"
    /\ prefill_i < latency_samples
    /\ TrySendOk(chan, capacity)
    /\ chan' = Append(chan, Silence)
    /\ hist' = [hist EXCEPT !.pushed = Append(@, Silence)]
    /\ prefill_i' = prefill_i + 1
    /\ UNCHANGED << pc, result, configVars, capacity, created, latency_samples,
                    streamVars, shutdown, cap, ren >>

\* Lines 88-90, one iteration: try_send(0.0).ok() drops the error of a full channel.
PrefillStep ==
    /\ pc = "prefill"
    /\ prefill_i < latency_samples
    /\ chan' = TrySend(chan, capacity, Silence)
    /\ hist' = [hist EXCEPT !.pushed = IF TrySendOk(chan, capacity)
                                         THEN Append(@, Silence) ELSE @]
    /\ prefill_i' = prefill_i + 1
    /\ UNCHANGED << pc, result, configVars, capacity, created, latency_samples,
                    streamVars, shutdown, cap, ren >>

\* Line 88, loop exit; lines 92-128 define the closures and log.
PrefillDone ==
    /\ pc = "prefill"
    /\ prefill_i = latency_samples
    /\ pc' = "build_input"
    /\ UNCHANGED << result, configVars, chan, capacity, created, latency_samples,
                    prefill_i, streamVars, shutdown, cap, ren, hist >>

\* Lines 129-130.
BuildInputStream ==
    /\ pc = "build_input"
    /\ input_stream' = "built"
    /\ pc' = "sleep"
    /\ UNCHANGED << result, configVars, chan, capacity, created, latency_samples,
                    prefill_i, output_stream, shutdown, cap, ren, hist >>

\* Line 131.
Sleep ==
    /\ pc = "sleep"
    /\ pc' = "build_output"
    /\ UNCHANGED << result, configVars, chan, capacity, created, latency_samples,
                    prefill_i, streamVars, shutdown, cap, ren, hist >>

\* Lines 132-133.
BuildOutputStream ==
    /\ pc = "build_output"
    /\ output_stream' = "built"
    /\ pc' = "play_input"
    /\ UNCHANGED << result, configVars, chan, capacity, created, latency_samples,
                    prefill_i, input_stream, shutdown, cap, ren, hist >>

\* Line 134.
PlayInput ==
    /\ pc = "play_input"
    /\ input_stream' = "playing"
    /\ pc' = "play_output"
    /\ UNCHANGED << result, configVars, chan, capacity, created, latency_samples,
                    prefill_i, output_stream, shutdown, cap, ren, hist >>

\* Line 135; main then enters serve() (line 137).
PlayOutput ==
    /\ pc = "play_output"
    /\ output_stream' = "playing"
    /\ pc' = "serve"
    /\ UNCHANGED << result, configVars, chan, capacity, created, latency_samples,
                    prefill_i, input_stream, shutdown, cap, ren, hist >>

\* Lines 38-44: serve() creates its channel and installs the ctrl-c handler.
SetHandler ==
    /\ pc = "serve"
    /\ pc' = "recv"
    /\ UNCHANGED << result, configVars, chan, capacity, created, latency_samples,
                    prefill_i, streamVars, shutdown, cap, ren, hist >>

\* Lines 39-43: the installed ctrl-c handler sends on serve()'s channel.
CtrlC ==
    /\ pc = "recv"
    /\ ~shutdown
    /\ shutdown' = TRUE
    /\ UNCHANGED << pc, result, configVars, chan, capacity, created,
                    latency_samples, prefill_i, streamVars, cap, ren, hist >>

\* Lines 45-46 and 138: recv() returns, main returns Ok(()).
ServeReturn ==
    /\ pc = "recv"
    /\ shutdown
    /\ result' = "Ok"
    /\ pc' = "drop_output"
    /\ UNCHANGED << configVars, chan, capacity, created, latency_samples,
                    prefill_i, streamVars, shutdown, cap, ren, hist >>

\* (mutant) recv() fails too, with the handler installed and no signal sent.
FallibleSitesWithRecv ==
    {"build_input", "build_output", "play_input", "play_output", "serve", "recv"}

\* The `?` of lines 126-135 and of line 44 (through 137): a backend error, or
\* a failure to install the handler, makes main return.
FallibleSites == {"build_input", "build_output", "play_input", "play_output", "serve"}

MainError ==
    /\ pc \in FallibleSites
    /\ ~shutdown
    /\ result' = "ErrOther"
    /\ pc' = "drop_output"
    /\ UNCHANGED << configVars, chan, capacity, created, latency_samples,
                    prefill_i, streamVars, shutdown, cap, ren, hist >>

\* main's locals are dropped in reverse order of declaration: output_stream
\* first.  Dropping a stream waits for its callback to return.
DropOutput ==
    /\ pc = "drop_output"
    /\ ren.pc = "idle"
    /\ output_stream' = IF output_stream = "none" THEN "none" ELSE "dropped"
    /\ pc' = "drop_input"
    /\ UNCHANGED << result, configVars, chan, capacity, created, latency_samples,
                    prefill_i, input_stream, shutdown, cap, ren, hist >>

DropInput ==
    /\ pc = "drop_input"
    /\ cap.pc = "idle"
    /\ input_stream' = IF input_stream = "none" THEN "none" ELSE "dropped"
    /\ pc' = "returned"
    /\ UNCHANGED << result, configVars, chan, capacity, created, latency_samples,
                    prefill_i, output_stream, shutdown, cap, ren, hist >>

\* ------------------------------------------------ capture: input_data_fn
\* Lines 92-93: the backend hands over a batch of whole interleaved frames.
\* The samples of the batch are drawn as the loop reads them.
CaptureBegin ==
    /\ Running(input_stream)
    /\ cap.pc = "idle"
    /\ \E f \in 0..MaxFrames :
         /\ hist.captured + f * input_config.channels <= MaxCaptured
         /\ cap' = [pc |-> "loop", data |-> << >>, oks |-> << >>,
                    n |-> f * input_config.channels,
                    output_fell_behind |-> FALSE, fill0 |-> Len(chan),
                    concurrent |-> FALSE]
    /\ UNCHANGED << mainVars, configVars, chan, capacity, created, streamVars,
                    ren, hist >>

\* (mutant) send instead of try_send: the callback waits for a free slot.
CapturePushBlocking ==
    /\ cap.pc = "loop"
    /\ Len(cap.data) < cap.n
    /\ TrySendOk(chan, capacity)
    /\ \E sample \in Samples :
         /\ chan' = Append(chan, sample)
         /\ cap' = [cap EXCEPT !.data = Append(@, sample),
                               !.oks = Append(@, TRUE)]
         /\ hist' = [hist EXCEPT !.pushed = Append(@, sample),
                                 !.captured = @ + 1]
    /\ ren' = [ren EXCEPT !.concurrent = @ \/ ren.pc = "loop"]
    /\ UNCHANGED << mainVars, configVars, capacity, created, streamVars >>

\* Lines 94-98, one iteration.
CapturePush ==
    /\ cap.pc = "loop"
    /\ Len(cap.data) < cap.n
    /\ \E sample \in Samples :
         LET ok == TrySendOk(chan, capacity) IN
         /\ chan' = TrySend(chan, capacity, sample)
         /\ cap' = [cap EXCEPT !.data = Append(@, sample),
                               !.oks = Append(@, ok),
                               !.output_fell_behind = FlagAfter(@, ok)]
         /\ hist' = [hist EXCEPT
                       !.pushed = IF ok THEN Append(@, sample) ELSE @,
                       !.rejected = @ \/ ~ok,
                       !.captured = @ + 1]
    /\ ren' = [ren EXCEPT !.concurrent = @ \/ ren.pc = "loop"]
    /\ UNCHANGED << mainVars, configVars, capacity, created, streamVars >>

\* Lines 99-102: the loop is over; the diagnostic is logged iff the flag is
\* set, and the callback returns.
CaptureEnd ==
    /\ cap.pc = "loop"
    /\ Len(cap.data) = cap.n
    /\ cap' = IdleCap
    /\ UNCHANGED << mainVars, configVars, chan, capacity, created, streamVars,
                    ren, hist >>

\* ------------------------------------------------- render: output_data_fn
\* Lines 104-105: the backend asks for f frames; the buffer it passes holds
\* whatever it held before, which is drawn when a frame is left untouched.
RenderBegin ==
    /\ Running(output_stream)
    /\ ren.pc = "idle"
    /\ \E f \in 0..MaxFrames :
         /\ hist.rendered + f <= MaxRendered
         /\ ren' = [pc |-> "loop", data |-> << >>, n |-> f, written |-> {},
                    input_fell_behind |-> FALSE, fill0 |-> Len(chan),
                    concurrent |-> FALSE]
    /\ UNCHANGED << mainVars, configVars, chan, capacity, created, streamVars,
                    cap, hist >>

\* Lines 106-114, one chunk of output_config.channels slots.
\* Ok: the received sample is stored in every slot of the chunk.
\* Err: the chunk is not touched; only the flag is set.  hist.diverged
\* follows a second run of the same calls on the same samples, whose output
\* buffers held `other` where this run's held `stale`: it is set once the
\* two runs have delivered different output.
RenderFrame ==
    /\ ren.pc = "loop"
    /\ Len(ren.data) < ren.n * output_config.channels
    /\ LET ch    == output_config.channels
           slots == (Len(ren.data) + 1)..(Len(ren.data) + ch)
       IN IF TryRecvOk(chan)
            THEN /\ chan' = Tail(chan)
                 /\ ren' = [ren EXCEPT !.data = @ \o FillFrame(Head(chan), ch),
                                       !.written = @ \cup slots]
                 /\ hist' = [hist EXCEPT
                               !.popped = Append(@, Head(chan)),
                               !.delivered = @ \o FillFrame(Head(chan), ch),
                               !.rendered = @ + 1]
                 /\ cap' = [cap EXCEPT !.concurrent = @ \/ cap.pc = "loop"]
            ELSE /\ chan' = chan
                 /\ cap' = cap
                 /\ \E stale, other \in [1..ch -> Samples] :
                      /\ ren' = [ren EXCEPT !.data = @ \o stale,
                                            !.input_fell_behind = TRUE]
                      /\ hist' = [hist EXCEPT !.underran = TRUE,
                                              !.rendered = @ + 1,
                                              !.diverged = @ \/ other # stale]
    /\ UNCHANGED << mainVars, configVars, capacity, created, streamVars >>

\* Lines 115-118: the loop is over; the diagnostic is logged iff the flag is
\* set, and the callback returns.
RenderEnd ==
    /\ ren.pc = "loop"
    /\ Len(ren.data) = ren.n * output_config.channels
    /\ ren' = IdleRen
    /\ UNCHANGED << mainVars, configVars, chan, capacity, created, streamVars,
                    cap, hist >>

\* ----------------------------------------------------------- specification
Next ==
    \/ CheckRates
    \/ ComputeLatency
    \/ CreateChannel
    \/ PrefillStep
    \/ PrefillDone
    \/ BuildInputStream
    \/ Sleep
    \/ BuildOutputStream
    \/ PlayInput
    \/ PlayOutput
    \/ SetHandler
    \/ CtrlC
    \/ ServeReturn
    \/ MainError
    \/ DropOutput
    \/ DropInput
    \/ CaptureBegin
    \/ CapturePush
    \/ CaptureEnd
    \/ RenderBegin
    \/ RenderFrame
    \/ RenderEnd

Spec == Init /\ [][Next]_vars

\* main runs on, a callback that was entered runs to its return, and the
\* drop of a stream, which its thread looks for between two callbacks, gets
\* its turn.
Fairness ==
    /\ WF_vars(ServeReturn)
    /\ WF_vars(CapturePush \/ CaptureEnd)
    /\ WF_vars(RenderFrame \/ RenderEnd)
    /\ SF_vars(DropOutput)
    /\ SF_vars(DropInput)

FairSpec == Spec /\ Fairness

\* -------------------------------------------------------------- properties
Min(a, b) == IF a < b THEN a ELSE b

IsPrefix(a, b) == Len(a) <= Len(b) /\ \A k \in 1..Len(a) : a[k] = b[k]

Zeros(n) == [k \in 1..n |-> Silence]

\* round(latency_seconds * sample_rate) * channels, the latency in milliseconds.
RoundedLatencySamples(cfg) ==
    ((INITIAL_LATENCY * cfg.sample_rate + 500) \div 1000) * cfg.channels

\* main has left the prefill loop (and did not stop at the rate check).
PrefillOver ==
    /\ pc \notin {"check_rates", "latency", "channel", "prefill"}
    /\ result # "ErrRate"

\* input_data_fn has left its loop and is about to log and return.
AtFeedReturn == cap.pc = "loop" /\ Len(cap.data) = cap.n

\* output_data_fn has left its loop and is about to log and return.
AtDrainReturn == ren.pc = "loop" /\ Len(ren.data) = ren.n * output_config.channels

\* The samples output_data_fn has received so far in the running call, when
\* no push came in between.
RemovedByDrain == ren.fill0 - Len(chan)

\* Both devices were negotiated with the same channel count.
SameChannels == input_config.channels = output_config.channels

\* C1: with one channel count on both sides, as long as no capture push was
\* rejected (pushed minus popped never exceeded the capacity) and no pop
\* failed, the samples delivered to the output buffers are, slot by slot, the
\* samples pushed: the prefill silence, then the captured samples.
C1_DeliveredEqualsPushed ==
    (SameChannels /\ ~hist.rejected /\ ~hist.underran)
        => IsPrefix(hist.delivered, hist.pushed)

\* C2: when output_data_fn returns, every slot of the buffer holds either a
\* sample received from the channel or silence, and the call has marked
\* underrun if some slot got no received sample.
C2_RequestCompletelyFilled ==
    AtDrainReturn =>
        /\ Len(ren.data) = ren.n * output_config.channels
        /\ \A k \in 1..Len(ren.data) :
              k \notin ren.written => ren.data[k] = Silence
        /\ (ren.written # 1..Len(ren.data)) => ren.input_fell_behind

\* C3 as claimed: when the prefill loop is over the channel holds exactly
\* round(L*R)*C zero samples.
C3_PrefillIsLatency ==
    pc = "build_input" => chan = Zeros(RoundedLatencySamples(output_config))

\* C3 as amended: once the prefill loop is over and before any capture push,
\* the samples received so far followed by the samples still queued are
\* exactly min(round(L*R)*C, BUFFER_SIZE) zeros.
C3_PrefillIsCappedLatency ==
    (PrefillOver /\ hist.captured = 0) =>
        hist.popped \o chan
            = Zeros(Min(RoundedLatencySamples(output_config), BUFFER_SIZE))

C3_Witness ==
    /\ PrefillOver
    /\ hist.captured = 0
    /\ RoundedLatencySamples(output_config) > BUFFER_SIZE
    /\ Len(hist.popped) > 0
    /\ Len(chan) > 0

\* C4: the channel never holds more than BUFFER_SIZE samples; a push made
\* while it holds BUFFER_SIZE samples completes, leaves the queue as it was
\* and sets the call's overrun flag, which stays set until the call returns.
C4_FillBounded ==
    /\ [](Len(chan) <= BUFFER_SIZE)
    /\ [][ /\ (Len(cap'.data) = Len(cap.data) + 1 /\ Len(chan) = BUFFER_SIZE)
               => (chan' = chan /\ cap'.output_fell_behind)
           /\ (cap.output_fell_behind /\ cap'.pc = "loop")
               => cap'.output_fell_behind ]_vars

C4_Witness ==
    /\ AtFeedReturn
    /\ cap.output_fell_behind
    /\ Len(chan) = BUFFER_SIZE

C6_UnderrunIff ==
    (SameChannels /\ AtDrainReturn /\ ~ren.concurrent) =>
        (ren.input_fell_behind
            <=> ren.n * output_config.channels > ren.fill0)

\* C7: with one channel count on both sides, a render call of n frames
\* during which no push happened removes min(n * channels, available)
\* samples and stores them, in the order received, in the first slots of the
\* buffer.
C7_OneSamplePerSlot ==
    (SameChannels /\ AtDrainReturn /\ ~ren.concurrent) =>
        /\ RemovedByDrain = Min(ren.n * output_config.channels, ren.fill0)
        /\ \A k \in 1..RemovedByDrain :
              /\ k <= Len(ren.data)
              /\ ren.data[k] = hist.popped[Len(hist.popped) - RemovedByDrain + k]

\* C8: with different sample rates main never gets past the rate check: the
\* channel is never created, no stream is built, no callback runs, and main
\* returns the configuration error.
C8_RateMismatchFailsEarly ==
    input_config.sample_rate # output_config.sample_rate =>
        /\ pc \in {"check_rates", "returned"}
        /\ pc = "returned" => result = "ErrRate"
        /\ ~created
        /\ input_stream = "none" /\ output_stream = "none"
        /\ cap = IdleCap /\ ren = IdleRen
        /\ hist.pushed = << >> /\ hist.delivered = << >>

C8_Witness ==
    /\ input_config.sample_rate # output_config.sample_rate
    /\ pc = "returned"
    /\ result = "ErrRate"

\* C9: with different channel counts the channel is never created and no
\* stream is ever built.
C9_ChannelMismatchFailsEarly ==
    input_config.channels # output_config.channels =>
        /\ ~created
        /\ input_stream = "none" /\ output_stream = "none"

\* C10 as claimed: the channel's bound is round(L*R)*C.
C10_CapacityIsLatency ==
    created => capacity = RoundedLatencySamples(output_config)

\* C10 as amended: the channel's bound is BUFFER_SIZE whatever the latency,
\* the sample rate and the channel count, and the channel takes exactly that
\* many samples.
C10_CapacityIsBufferSize ==
    /\ created => capacity = BUFFER_SIZE
    /\ (created /\ Len(chan) < BUFFER_SIZE) => TrySendOk(chan, capacity)
    /\ (created /\ Len(chan) >= BUFFER_SIZE) => ~TrySendOk(chan, capacity)

C10_Witness ==
    /\ created
    /\ Len(chan) = capacity
    /\ capacity # RoundedLatencySamples(output_config)

\* The session's state, by main's position: Uninitialized until the prefill
\* loop is left, Prefilled until both streams were played, Streaming while
\* main is in serve(), Stopped once main is returning.
Session ==
    CASE pc \in {"check_rates", "latency", "channel", "prefill"} -> "Uninitialized"
      [] pc \in {"build_input", "sleep", "build_output", "play_input",
                 "play_output"} -> "Prefilled"
      [] pc \in {"serve", "recv"} -> "Streaming"
      [] OTHER -> "Stopped"

Rank(st) ==
    CASE st = "Uninitialized" -> 0
      [] st = "Prefilled" -> 1
      [] st = "Streaming" -> 2
      [] OTHER -> 3

\* The step is an iteration of input_data_fn's loop.
PushStep == Len(cap'.data) = Len(cap.data) + 1

\* The step is an iteration of output_data_fn's loop.
FrameStep == Len(ren'.data) = Len(ren.data) + output_config.channels

\* The samples of a batch whose try_send was Ok, in the order of the batch.
AcceptedOf(data, oks) ==
    LET F[k \in 0..Len(data)] ==
          IF k = 0 THEN << >>
          ELSE IF oks[k] THEN Append(F[k - 1], data[k]) ELSE F[k - 1]
    IN F[Len(data)]

\* C11: under every interleaving the samples received so far, followed by
\* the samples still queued, are the samples the channel accepted, in the
\* order of their try_send; the first to come out are the prefill zeros, and
\* what a feed call has queued is the accepted part of its batch, in the
\* order of the batch.
C11_PoppedInPushOrder ==
    /\ hist.popped \o chan = hist.pushed
    /\ PrefillOver =>
         \A k \in 1..Min(Len(hist.popped), Min(latency_samples, BUFFER_SIZE)) :
            hist.popped[k] = Silence
    /\ (cap.pc = "loop" /\ ~cap.concurrent) =>
         SubSeq(chan, cap.fill0 + 1, Len(chan)) = AcceptedOf(cap.data, cap.oks)

C11_Witness ==
    /\ \E k \in 1..Len(hist.popped) : hist.popped[k] # Silence
    /\ hist.popped[1] = Silence
    /\ Len(chan) > 0

\* C12: a second run of the same calls on the same samples delivers the same
\* output, whatever the output buffers held before.
C12_OutputsDeterministic == ~hist.diverged

\* C13: a callback that is in its loop can always take its next step,
\* whatever the channel holds and wherever the other callback is, and the
\* steps it has taken never exceed its batch size.
C13_CallbacksNeverWait ==
    /\ cap.pc = "loop" =>
         /\ Len(cap.data) <= cap.n
         /\ ENABLED (CapturePush \/ CaptureEnd)
    /\ ren.pc = "loop" =>
         /\ Len(ren.data) <= ren.n * output_config.channels
         /\ ENABLED (RenderFrame \/ RenderEnd)

C13_Witness ==
    /\ cap.pc = "loop"
    /\ Len(cap.data) < cap.n
    /\ Len(chan) = BUFFER_SIZE
    /\ ren.pc = "loop"
    /\ Len(ren.data) = 0

C16_EverySampleAttempted ==
    /\ cap.pc = "loop" =>
         (cap.output_fell_behind <=> \E k \in 1..Len(cap.oks) : ~cap.oks[k])
    /\ AtFeedReturn => (Len(cap.oks) = cap.n /\ Len(cap.data) = cap.n)

C16_Witness ==
    /\ AtFeedReturn
    /\ cap.output_fell_behind
    /\ \E i \in 1..cap.n : ~cap.oks[i] /\ \E j \in (i + 1)..cap.n : cap.oks[j]

\* C17: a feed call during which nothing was popped leaves the queued samples
\* in place, followed by the samples of the batch that found a free slot; a
\* one-channel render call during which nothing was pushed returns the
\* samples it received, in order, followed by silence, with underrun iff it
\* was padded.
C17_OnlyRejectedSamplesLost ==
    /\ (AtFeedReturn /\ ~cap.concurrent) =>
         /\ Len(chan) = Min(cap.fill0 + cap.n, BUFFER_SIZE)
         /\ chan = SubSeq(chan, 1, cap.fill0)
                     \o SubSeq(cap.data, 1, Len(chan) - cap.fill0)
         /\ cap.output_fell_behind <=> cap.fill0 + cap.n > BUFFER_SIZE
    /\ (AtDrainReturn /\ ~ren.concurrent /\ output_config.channels = 1) =>
         /\ ren.data = SubSeq(hist.popped, Len(hist.popped) - RemovedByDrain + 1,
                              Len(hist.popped))
                         \o Zeros(ren.n - RemovedByDrain)
         /\ ren.input_fell_behind <=> ren.n > ren.fill0

\* Both streams are playing and main is in serve().
Streaming == Session = "Streaming"

\* C18 as claimed: once both streams are playing the session leaves
\* Streaming only after the shutdown signal.
C18_StreamingUntilShutdown ==
    [][(Streaming /\ ~Streaming') => shutdown]_vars

\* C18 as amended: the session leaves Streaming only after the shutdown
\* signal or because the ctrl-c handler could not be installed; once the
\* signal was sent main eventually returns, and once main has returned both
\* streams are dropped, no callback is running and nothing is pushed or
\* popped any more.
C18_StreamingUntilShutdownOrHandlerError ==
    /\ [][(Streaming /\ ~Streaming') =>
             (shutdown \/ (pc = "serve" /\ result' = "ErrOther"))]_vars
    /\ [](pc = "returned" =>
             /\ ~Running(input_stream) /\ ~Running(output_stream)
             /\ cap.pc = "idle" /\ ren.pc = "idle")
    /\ [][pc = "returned" => (chan' = chan /\ hist' = hist)]_vars
    /\ (shutdown ~> pc = "returned")

C18_Witness ==
    /\ pc = "returned"
    /\ shutdown
    /\ result = "Ok"
    /\ input_stream = "dropped" /\ output_stream = "dropped"

\* C19: the prefill loop can always take its next step and does not make
\* main fail; when it is left the channel holds exactly
\* min(latency_samples, BUFFER_SIZE) zeros, which is at most its bound.
C19_PrefillNeverBlocks ==
    /\ pc = "prefill" =>
         /\ ENABLED (PrefillStep \/ PrefillDone)
         /\ result = "none"
         /\ chan = Zeros(Min(prefill_i, BUFFER_SIZE))
    /\ pc = "build_input" =>
         /\ result = "none"
         /\ prefill_i = latency_samples
         /\ chan = Zeros(Min(latency_samples, BUFFER_SIZE))
         /\ Len(chan) <= capacity

C19_Witness ==
    /\ pc = "build_input"
    /\ latency_samples > BUFFER_SIZE
    /\ Len(chan) = BUFFER_SIZE

\* The slots of frame j of the output buffer.
FrameSlots(j) ==
    ((j - 1) * output_config.channels + 1)..(j * output_config.channels)

\* C20: in a render call every frame handled so far is either untouched or
\* holds one received sample in all its slots; the samples received are as
\* many as the frames so filled, at most the frames asked for, and, when no
\* push came in between, exactly what the channel lost.
C20_OnePopPerFrame ==
    ren.pc = "loop" =>
        LET ch    == output_config.channels
            done  == Len(ren.data) \div ch
            pops  == Cardinality(ren.written) \div ch
        IN /\ Len(ren.data) = done * ch
           /\ \A j \in 1..done :
                \/ FrameSlots(j) \cap ren.written = {}
                \/ /\ FrameSlots(j) \subseteq ren.written
                   /\ \A k \in FrameSlots(j) : ren.data[k] = ren.data[(j - 1) * ch + 1]
           /\ Cardinality(ren.written) = pops * ch
           /\ pops <= done /\ done <= ren.n
           /\ ~ren.concurrent => RemovedByDrain = pops

C20_Witness ==
    /\ AtDrainReturn
    /\ output_config.channels > 1
    /\ ren.n > 0
    /\ ren.written = 1..Len(ren.data)

====
